---- MODULE Spec2Model ----
(***************************************************************************)
(* taro2-to-3: the migration command line (bin/cli.js).                    *)
(*                                                                         *)
(* bootstrap() checks the git state, loads the Project, rewrites the build *)
(* config and the entry file, starts the dependency marker, runs the three *)
(* jscodeshift passes one after the other, reads the marker, renders       *)
(* babel.config.js when the project has none and reports / installs the    *)
(* taro dependencies.                                                      *)
(*                                                                         *)
(* bin/project.js, bin/taroDeps.js, transforms/*.js and                    *)
(* transforms/utils/marker.js are required by cli.js; the definitions      *)
(* that stand for them follow the specification document (sections 3-4).   *)
(***************************************************************************)
EXTENDS Integers, Sequences, FiniteSets, TLC

\* ------------------------------------------------------------------ bounds
NumFiles == 2          \* source files under sourceRoot
MaxUses == 2           \* this.$router / this.$instance.router expressions per file
MaxCpusOpt == 1        \* largest value of the --cpus option (0 = option not given)

FileIds == 1..NumFiles
OsCpuCounts == {2, 8}  \* os.cpus().length of the machines considered

\* --------------------------------------------------------- program constants
transformersReordered == <<"taro-imports", "router", "page-config">>

transformers == <<"router", "taro-imports", "page-config">>

dependencyProperties ==
  <<"dependencies", "devDependencies", "clientDependencies",
    "isomorphicDependencies", "buildDependencies">>

PassNames == {"router", "taro-imports", "page-config"}

Features == {"legacy-decorators", "babel-plugin-const-enum"}

\* ------------------------------------------------------------ source files
\* A source file, reduced to the structure the three passes look at.
\*   throwsIn      passes in which parsing / rewriting the file throws
\*   routerUses    number of `this.$router` expressions
\*   instanceUses  number of `this.$instance.router` expressions
\*   instanceFields number of `$instance = getCurrentInstance()` class fields
\*   taroDefault   `import Taro from '@tarojs/taro'` default binding present
\*   taroNamed     named imports taken from '@tarojs/taro'
\*   usesTaroComponent  `Taro.Component` property access present
\*   otherTaroUses other `Taro.*` members referenced
\*   reactImport   "none" | "default" | "withComponent"
\*   kind          default export: "class" | "function" | "none"
\*   configs       object literals attached as `config`
\*   isApp         the entry file <sourceRoot>/app
\*   sibling       content of the *.config sibling file ("none" if absent)
UISymbols == {"Component"}

ParseError == PassNames

ThrowKinds == {{}, ParseError, {"taro-imports"}}

UsePairs == {u \in (0..MaxUses) \X (0..MaxUses) : u[1] + u[2] <= MaxUses}

AllFiles ==
  { [throwsIn |-> t, routerUses |-> u[1], instanceUses |-> u[2],
     instanceFields |-> i, taroDefault |-> td, taroNamed |-> tn,
     usesTaroComponent |-> tc, otherTaroUses |-> ot, reactImport |-> r,
     kind |-> k, configs |-> c, isApp |-> a, sibling |-> s] :
      t \in ThrowKinds, u \in UsePairs, i \in 0..1, td \in BOOLEAN,
      tn \in SUBSET {"Component", "getCurrentInstance"},
      tc \in BOOLEAN, ot \in BOOLEAN,
      r \in {"none", "default", "withComponent"},
      k \in {"class", "function", "none"}, c \in SUBSET {"a", "b"},
      a \in BOOLEAN, s \in {"none", "a"} }

\* Files that reference the Taro default binding only when it is imported.
WellFormedFiles ==
  { f \in AllFiles : (f.usesTaroComponent \/ f.otherTaroUses) => f.taroDefault }

\* transforms/router.js
routerInjectsTwice(f) ==
  IF f.routerUses = 0 /\ f.instanceUses = 0 THEN f
  ELSE [f EXCEPT !.routerUses = 0,
                 !.instanceUses = f.instanceUses + f.routerUses,
                 !.instanceFields = f.instanceFields + 1,
                 !.taroNamed = f.taroNamed \cup {"getCurrentInstance"}]

router(f) ==
  IF f.routerUses = 0 THEN f
  ELSE [f EXCEPT !.routerUses = 0,
                 !.instanceUses = f.instanceUses + f.routerUses,
                 !.instanceFields = IF f.instanceFields = 0 THEN 1 ELSE @,
                 !.taroNamed = IF f.instanceFields = 0
                               THEN @ \cup {"getCurrentInstance"} ELSE @]

\* transforms/taro-imports.js
taroImportsMatch(f) ==
  /\ f.taroDefault
  /\ ("Component" \in f.taroNamed \/ f.usesTaroComponent)
  /\ f.reactImport = "none"

taroImports(f) ==
  IF ~taroImportsMatch(f) THEN f
  ELSE [f EXCEPT !.reactImport =
                    IF (f.taroNamed \cap UISymbols) # {} \/ f.usesTaroComponent
                    THEN "withComponent" ELSE "default",
                 !.taroNamed = f.taroNamed \ UISymbols,
                 !.taroDefault = f.otherTaroUses,
                 !.usesTaroComponent = FALSE]

\* transforms/page-config.js
pageConfigMatch(f) ==
  /\ ~f.isApp
  /\ f.kind # "none"
  /\ Cardinality(f.configs) = 1

pageConfig(f) ==
  IF ~pageConfigMatch(f) THEN f
  ELSE [f EXCEPT !.configs = {},
                 !.sibling = CHOOSE c \in f.configs : TRUE]

Rewrite(p, f) ==
  CASE p = "router" -> router(f)
    [] p = "taro-imports" -> taroImports(f)
    [] p = "page-config" -> pageConfig(f)

\* One file through one pass of the worker: a throw leaves the file as it was.
Throws(p, f) == p \in f.throwsIn

ApplyPass(p, f) == IF Throws(p, f) THEN f ELSE Rewrite(p, f)


\* Projects the runs are started on: every file is one of these.
ClassPage ==
  [throwsIn |-> {}, routerUses |-> 2, instanceUses |-> 0, instanceFields |-> 0,
   taroDefault |-> TRUE, taroNamed |-> {"Component"},
   usesTaroComponent |-> FALSE, otherTaroUses |-> TRUE, reactImport |-> "none",
   kind |-> "class", configs |-> {"a"}, isApp |-> FALSE, sibling |-> "none"]

FunctionPage ==
  [throwsIn |-> {}, routerUses |-> 0, instanceUses |-> 0, instanceFields |-> 0,
   taroDefault |-> TRUE, taroNamed |-> {},
   usesTaroComponent |-> TRUE, otherTaroUses |-> FALSE, reactImport |-> "none",
   kind |-> "function", configs |-> {"a"}, isApp |-> FALSE, sibling |-> "none"]

BrokenPage == [ClassPage EXCEPT !.throwsIn = ParseError]

PlainModule ==
  [throwsIn |-> {}, routerUses |-> 0, instanceUses |-> 0, instanceFields |-> 0,
   taroDefault |-> FALSE, taroNamed |-> {},
   usesTaroComponent |-> FALSE, otherTaroUses |-> FALSE, reactImport |-> "none",
   kind |-> "none", configs |-> {}, isApp |-> FALSE, sibling |-> "none"]

SampleSources ==
  { [content |-> ClassPage, features |-> {"legacy-decorators"}],
    [content |-> FunctionPage, features |-> {"babel-plugin-const-enum"}],
    [content |-> BrokenPage, features |-> {"legacy-decorators"}],
    [content |-> PlainModule, features |-> {}] }

\* ------------------------------------------------------------------- state
VARIABLES
  nodeEnvLocal,        \* process.env.NODE_ENV === 'local'
  force,               \* args.force
  cpusOpt,             \* args.cpus (0: not given)
  osCpus,              \* os.cpus().length
  files,               \* content on disk of every source file
  features,            \* syntax features each source file contains
  original,            \* content of every source file when the run started
  pc,                  \* position of bootstrap()
  exitCode,            \* -1 while the process runs
  log,                 \* messages printed so far
  gitResult,           \* outcome of isGitClean()
  loadResult,          \* outcome of new Project(projectDir)
  configRewritten,     \* config/index.js written by the Project
  entryRewritten,      \* the entry file written by the Project
  marker,              \* the marker accumulator
  cur,                 \* loop index of run()
  passState,           \* per pass: "Pending" | "Running" | "Merged"
  started,             \* names of the passes started, in order
  pool,                \* --cpus given to the running pass
  queue,               \* files of the running pass not yet handed out
  holding,             \* per worker: the file it owns (0: none)
  delta,               \* per worker: marker observations not yet merged
  processed,           \* per pass and file: times a worker processed it
  failed,              \* per pass: files whose transform threw
  dependenciesMarkers, \* result of marker.output()
  markerRead,          \* marker.output() has been called
  babelExisted,        \* babel.config.js found in the project
  babelRendered,       \* the template was rendered
  babelParam,          \* shouldUseConstEnumPlugin of that rendering
  babelWritten,        \* babel.config.js written
  pkgFound,            \* readPkgUp found a package.json
  pkg,                 \* its content
  upgradeDeps,         \* checkDependencies: upgradeDeps
  deprecatedDeps,      \* checkDependencies: deprecatedDeps
  prompted,            \* inquirer.prompt was shown
  commands,            \* package manager commands run
  idem                 \* scratch of the pass-application specification

envVars == <<nodeEnvLocal, force, cpusOpt, osCpus>>
projVars == <<gitResult, loadResult, configRewritten, entryRewritten>>
passVars == <<cur, passState, started, pool, queue, holding, delta, processed, failed>>
babelVars == <<babelExisted, babelRendered, babelParam, babelWritten>>
depVars == <<pkgFound, pkg, upgradeDeps, deprecatedDeps, prompted, commands>>
vars == <<envVars, files, features, original, pc, exitCode, log, projVars, marker, passVars,
          dependenciesMarkers, markerRead, babelVars, depVars, idem>>


\* ------------------------------------------------------------ dependencies
\* A version or a version range of a manifest, as semver reads it:
\*   op ""      "x.y.z"   (a plain version; as a range: exactly that version)
\*   op "^"     "^x.y.z"
\*   op "~"     "~x.y.z"
\*   op ">="    ">=x.y.z"
\*   op "empty" ""        (falsy in JavaScript; as a range: any version)
\*   op "bad"   text that is no range ("latest", a git url)
\*   op "none"  the dependency is not declared
V(op, a, b, c) == [op |-> op, major |-> a, minor |-> b, patch |-> c]

NoRange == V("none", 0, 0, 0)

expectVersion == V("^", 3, 1, 1)

expectedMinimum == V("", 3, 1, 1)

Less(v, w) ==
  \/ v.major < w.major
  \/ v.major = w.major /\ v.minor < w.minor
  \/ v.major = w.major /\ v.minor = w.minor /\ v.patch < w.patch

SameVersion(v, w) == v.major = w.major /\ v.minor = w.minor /\ v.patch = w.patch

\* new SemVer(version): only a plain x.y.z parses
ValidVersion(v) == v.op = ""

\* new Range(range)
ValidRange(r) == r.op \in {"", "^", "~", ">=", "empty"}

\* Range.prototype.test on a parsed version
RangeTest(v, r) ==
  CASE r.op = "empty" -> TRUE
    [] r.op = "" -> SameVersion(v, r)
    [] r.op = ">=" -> ~Less(v, r)
    [] r.op = "~" -> ~Less(v, r) /\ v.major = r.major /\ v.minor = r.minor
    [] r.op = "^" ->
         /\ ~Less(v, r)
         /\ IF r.major > 0 THEN v.major = r.major
            ELSE IF r.minor > 0 THEN v.major = 0 /\ v.minor = r.minor
            ELSE SameVersion(v, r)
    [] OTHER -> FALSE

\* semver/functions/satisfies: false when the range or the version does not parse
semverSatisfies(version, range) ==
  IF ~ValidRange(range) THEN FALSE
  ELSE IF ~ValidVersion(version) THEN FALSE
  ELSE RangeTest(version, range)

\* !!versionRange
Truthy(r) == r.op \notin {"none", "empty"}

\* bin/taroDeps.js
taroDeps ==
  [install |-> << [name |-> "react", dev |-> FALSE],
                  [name |-> "@tarojs/mini-runner", dev |-> TRUE] >>,
   upgrade |-> <<"@tarojs/taro", "@tarojs/components">>,
   deprecated |-> <<"nervjs">>]

Elems(seq) == {seq[i] : i \in 1..Len(seq)}

DepNames == Elems(taroDeps.upgrade) \cup Elems(taroDeps.deprecated)

Sections == Elems(dependencyProperties)

\* --------------------------------------------------------------- helpers
Max(a, b) == IF a >= b THEN a ELSE b

Min(a, b) == IF a <= b THEN a ELSE b

CeilDiv(a, b) == (a + b - 1) \div b

\* getRunnerArgs: the --cpus argument
cpus(opt, n) == IF opt # 0 THEN opt ELSE Max(2, CeilDiv(n, 3))

PoolSizes == {cpus(c, n) : c \in 0..MaxCpusOpt, n \in OsCpuCounts}

MaxPool == CHOOSE m \in PoolSizes : \A k \in PoolSizes : k <= m

Workers == 1..MaxPool

ZeroMarker == [k \in Features |-> 0]

RECURSIVE SumDelta(_, _, _)
SumDelta(d, k, w) == IF w = 0 THEN 0 ELSE d[w][k] + SumDelta(d, k, w - 1)

IdleIdem == [stage |-> 0, pass |-> "none", file |-> PlainModule,
             once |-> PlainModule, twice |-> PlainModule]

EmptyManifest ==
  [present |-> {}, deps |-> [s \in Sections |-> [d \in DepNames |-> NoRange]]]

\* -------------------------------------------------------------------- Init
Init ==
  /\ nodeEnvLocal \in BOOLEAN
  /\ force \in BOOLEAN
  /\ cpusOpt \in 0..MaxCpusOpt
  /\ osCpus \in OsCpuCounts
  /\ \E src \in [FileIds -> SampleSources] :
       /\ files = [f \in FileIds |-> src[f].content]
       /\ features = [f \in FileIds |-> src[f].features]
       /\ original = [f \in FileIds |-> src[f].content]
  /\ pc = "bootstrap"
  /\ exitCode = -1
  /\ log = {}
  /\ gitResult = "unchecked"
  /\ loadResult = "unloaded"
  /\ configRewritten = FALSE
  /\ entryRewritten = FALSE
  /\ marker = ZeroMarker
  /\ cur = 1
  /\ passState = [i \in 1..3 |-> "Pending"]
  /\ started = <<>>
  /\ pool = 0
  /\ queue = {}
  /\ holding = [w \in Workers |-> 0]
  /\ delta = [w \in Workers |-> ZeroMarker]
  /\ processed = [i \in 1..3 |-> [f \in FileIds |-> 0]]
  /\ failed = [i \in 1..3 |-> {}]
  /\ dependenciesMarkers = ZeroMarker
  /\ markerRead = FALSE
  /\ babelExisted = FALSE
  /\ babelRendered = FALSE
  /\ babelParam = FALSE
  /\ babelWritten = FALSE
  /\ pkgFound = FALSE
  /\ pkg = EmptyManifest
  /\ upgradeDeps = [order |-> <<>>, from |-> [d \in Elems(taroDeps.upgrade) |-> NoRange]]
  /\ deprecatedDeps = <<>>
  /\ prompted = FALSE
  /\ commands = <<>>
  /\ idem = IdleIdem

\* --------------------------------------------------------------- bootstrap
GitResults == {"clean", "dirty", "notRepo", "error"}

\* ensureGitClean: the value of `clean` after the try / catch
GitCleanAnyError(r) == r # "dirty"

GitClean(r) ==
  CASE r = "clean" -> TRUE
    [] r = "dirty" -> FALSE
    [] r = "notRepo" -> TRUE      \* stderr includes 'not a git repository'
    [] r = "error" -> FALSE

\* bootstrap, NODE_ENV !== 'local' and no --force: await ensureGitClean()
EnsureGitClean ==
  /\ pc = "bootstrap"
  /\ ~nodeEnvLocal /\ ~force
  /\ \E r \in GitResults :
       /\ gitResult' = r
       /\ IF GitClean(r)
          THEN /\ pc' = "project"
               /\ UNCHANGED <<exitCode, log>>
          ELSE /\ pc' = "exited"
               /\ exitCode' = 1
               /\ log' = log \cup {"git changes"}
  /\ UNCHANGED <<envVars, files, features, original, loadResult, configRewritten,
                 entryRewritten, marker, passVars, dependenciesMarkers,
                 markerRead, babelVars, depVars, idem>>

\* bootstrap: local mode, or --force with its warning
SkipGitCheck ==
  /\ pc = "bootstrap"
  /\ nodeEnvLocal \/ force
  /\ log' = IF ~nodeEnvLocal THEN log \cup {"force warning"} ELSE log
  /\ pc' = "project"
  /\ UNCHANGED <<envVars, files, features, original, exitCode, projVars, marker, passVars,
                 dependenciesMarkers, markerRead, babelVars, depVars, idem>>

LoadResults == {"ok", "ConfigNotFound", "SourceRootMissing"}

\* bootstrap: new Project(projectDir) inside try / catch
LoadProjectNoExit ==
  /\ pc = "project"
  /\ \E r \in LoadResults :
       /\ loadResult' = r
       /\ pc' = "overwriteConfig"
       /\ log' = IF r = "ok" THEN log ELSE log \cup {"fatal: " \o r}
       /\ UNCHANGED exitCode
  /\ UNCHANGED <<envVars, files, features, original, gitResult, configRewritten,
                 entryRewritten, marker, passVars, dependenciesMarkers,
                 markerRead, babelVars, depVars, idem>>

LoadProject ==
  /\ pc = "project"
  /\ \E r \in LoadResults :
       /\ loadResult' = r
       /\ IF r = "ok"
          THEN /\ pc' = "overwriteConfig"
               /\ UNCHANGED <<exitCode, log>>
          ELSE /\ pc' = "exited"
               /\ exitCode' = 1
               /\ log' = log \cup {"fatal: " \o r}
  /\ UNCHANGED <<envVars, files, features, original, gitResult, configRewritten,
                 entryRewritten, marker, passVars, dependenciesMarkers,
                 markerRead, babelVars, depVars, idem>>

\* project.transformAndOverwriteConfig()
TransformAndOverwriteConfig ==
  /\ pc = "overwriteConfig"
  /\ configRewritten' = TRUE
  /\ pc' = "transformEntry"
  /\ UNCHANGED <<envVars, files, features, original, exitCode, log, gitResult, loadResult,
                 entryRewritten, marker, passVars, dependenciesMarkers,
                 markerRead, babelVars, depVars, idem>>

\* project.transformEntry()
TransformEntry ==
  /\ pc = "transformEntry"
  /\ entryRewritten' = TRUE
  /\ pc' = "markerStart"
  /\ UNCHANGED <<envVars, files, features, original, exitCode, log, gitResult, loadResult,
                 configRewritten, marker, passVars, dependenciesMarkers,
                 markerRead, babelVars, depVars, idem>>

\* await marker.start()
MarkerStart ==
  /\ pc = "markerStart"
  /\ marker' = ZeroMarker
  /\ pc' = "run"
  /\ UNCHANGED <<envVars, files, features, original, exitCode, log, projVars, passVars,
                 dependenciesMarkers, markerRead, babelVars, depVars, idem>>


\* ------------------------------------------------------------------ passes
\* run / transform: console.log('Transform', transformer) and the start of
\* jscodeshift over sourceRoot with the arguments of getRunnerArgs
TransformStart ==
  /\ pc = "run"
  /\ cur <= Len(transformers)
  /\ passState[cur] = "Pending"
  /\ passState' = [passState EXCEPT ![cur] = "Running"]
  /\ started' = Append(started, transformers[cur])
  /\ pool' = cpus(cpusOpt, osCpus)
  /\ queue' = FileIds
  /\ log' = log \cup {"Transform " \o transformers[cur]}
  /\ UNCHANGED <<envVars, files, features, original, pc, exitCode, projVars, marker, cur,
                 holding, delta, processed, failed, dependenciesMarkers,
                 markerRead, babelVars, depVars, idem>>

\* A free worker of the pool is handed the next file.
WorkerTakeShared(w) ==
  /\ pc = "run"
  /\ cur <= Len(transformers)
  /\ passState[cur] = "Running"
  /\ w <= pool
  /\ holding[w] = 0
  /\ \E f \in queue :
       /\ holding' = [holding EXCEPT ![w] = f]
       /\ queue' = IF \E v \in Workers : v # w /\ holding[v] = 0 /\ v <= pool
                   THEN queue ELSE queue \ {f}
  /\ UNCHANGED <<envVars, files, features, original, pc, exitCode, log, projVars, marker,
                 cur, passState, started, pool, delta, processed, failed,
                 dependenciesMarkers, markerRead, babelVars, depVars, idem>>

WorkerTake(w) ==
  /\ pc = "run"
  /\ cur <= Len(transformers)
  /\ passState[cur] = "Running"
  /\ w <= pool
  /\ holding[w] = 0
  /\ \E f \in queue :
       /\ holding' = [holding EXCEPT ![w] = f]
       /\ queue' = queue \ {f}
  /\ UNCHANGED <<envVars, files, features, original, pc, exitCode, log, projVars, marker,
                 cur, passState, started, pool, delta, processed, failed,
                 dependenciesMarkers, markerRead, babelVars, depVars, idem>>

\* The worker on the file it owns: parse, match, rewrite, marker scan, commit.
\* A throw is caught and logged; the file is left as it was.
WorkerRun(w) ==
  /\ pc = "run"
  /\ cur <= Len(transformers)
  /\ passState[cur] = "Running"
  /\ holding[w] # 0
  /\ LET f == holding[w]
         p == transformers[cur]
     IN /\ IF Throws(p, files[f])
           THEN /\ failed' = [failed EXCEPT ![cur] = @ \cup {f}]
                /\ log' = log \cup {"file error"}
                /\ UNCHANGED <<files, delta>>
           ELSE /\ files' = [files EXCEPT ![f] = Rewrite(p, files[f])]
                /\ delta' = [delta EXCEPT ![w] =
                               [k \in Features |->
                                  IF k \in features[f] THEN @[k] + 1 ELSE @[k]]]
                /\ UNCHANGED <<failed, log>>
        /\ processed' = [processed EXCEPT ![cur][f] = @ + 1]
        /\ holding' = [holding EXCEPT ![w] = 0]
  /\ UNCHANGED <<envVars, features, original, pc, exitCode, projVars, marker, cur,
                 passState, started, pool, queue, dependenciesMarkers,
                 markerRead, babelVars, depVars, idem>>

\* transform: `await execa(...)` settles, a rejection is caught and logged;
\* the workers' marker observations are merged; run's loop goes on.
TransformFinishUncaught ==
  /\ pc = "run"
  /\ cur <= Len(transformers)
  /\ passState[cur] = "Running"
  /\ queue = {}
  /\ \A w \in Workers : holding[w] = 0
  /\ marker' = [k \in Features |-> marker[k] + SumDelta(delta, k, MaxPool)]
  /\ delta' = [w \in Workers |-> ZeroMarker]
  /\ passState' = [passState EXCEPT ![cur] = "Merged"]
  /\ \E rejected \in BOOLEAN :
       IF rejected
       THEN /\ pc' = "crashed"
            /\ exitCode' = 1
            /\ log' = log \cup {"transform error"}
            /\ UNCHANGED cur
       ELSE /\ cur' = cur + 1
            /\ pc' = IF cur = Len(transformers) THEN "markerOutput" ELSE "run"
            /\ UNCHANGED <<exitCode, log>>
  /\ UNCHANGED <<envVars, files, features, original, projVars, started, pool, queue,
                 holding, processed, failed, dependenciesMarkers, markerRead,
                 babelVars, depVars, idem>>

TransformFinish ==
  /\ pc = "run"
  /\ cur <= Len(transformers)
  /\ passState[cur] = "Running"
  /\ queue = {}
  /\ \A w \in Workers : holding[w] = 0
  /\ marker' = [k \in Features |-> marker[k] + SumDelta(delta, k, MaxPool)]
  /\ delta' = [w \in Workers |-> ZeroMarker]
  /\ passState' = [passState EXCEPT ![cur] = "Merged"]
  /\ \E rejected \in BOOLEAN :
       log' = IF rejected
              THEN log \cup ({"transform error"} \cup
                             IF nodeEnvLocal THEN {"error.log"} ELSE {})
              ELSE log
  /\ cur' = cur + 1
  /\ pc' = IF cur = Len(transformers) THEN "markerOutput" ELSE "run"
  /\ UNCHANGED <<envVars, files, features, original, exitCode, projVars, started, pool,
                 queue, holding, processed, failed, dependenciesMarkers,
                 markerRead, babelVars, depVars, idem>>

\* const dependenciesMarkers = await marker.output()
MarkerOutput ==
  /\ pc = "markerOutput"
  /\ dependenciesMarkers' = marker
  /\ markerRead' = TRUE
  /\ pc' = "checkBabelConfig"
  /\ UNCHANGED <<envVars, files, features, original, exitCode, log, projVars, marker,
                 passVars, babelVars, depVars, idem>>

\* renderBabelConfig: the data handed to the template
renderBabelConfigDecorators(markers) == markers["legacy-decorators"] > 0

renderBabelConfig(markers) == markers["babel-plugin-const-enum"] > 0

BabelOutcomes == {"exists", "written", "render error", "write error"}

\* checkBabelConfig(projectDir, dependenciesMarkers)
CheckBabelConfig ==
  /\ pc = "checkBabelConfig"
  /\ \E o \in BabelOutcomes :
       /\ babelExisted' = (o = "exists")
       /\ babelRendered' = (o \in {"written", "write error"})
       /\ babelParam' = IF o \in {"written", "write error"}
                        THEN renderBabelConfig(dependenciesMarkers) ELSE FALSE
       /\ babelWritten' = (o = "written")
       /\ log' = IF o \in {"render error", "write error"}
                 THEN log \cup {"babel config error"} ELSE log
  /\ pc' = "checkDependencies"
  /\ UNCHANGED <<envVars, files, features, original, exitCode, projVars, marker, passVars,
                 dependenciesMarkers, markerRead, depVars, idem>>


\* ------------------------------------------------------- checkDependencies
\* upgrade.forEach body, for one dependency section `deps`
UpgradeStep(acc, deps, depName) ==
  LET versionRange == deps[depName]
  IN IF Truthy(versionRange) /\ ~semverSatisfies(expectVersion, versionRange)
     THEN [order |-> IF depName \in Elems(acc.order) THEN acc.order
                     ELSE Append(acc.order, depName),
           from |-> [acc.from EXCEPT ![depName] = versionRange]]
     ELSE acc

RECURSIVE UpgradeOver(_, _, _)
UpgradeOver(acc, deps, i) ==
  IF i > Len(taroDeps.upgrade) THEN acc
  ELSE UpgradeOver(UpgradeStep(acc, deps, taroDeps.upgrade[i]), deps, i + 1)

RECURSIVE DeprecatedOver(_, _, _)
DeprecatedOver(acc, deps, i) ==
  IF i > Len(taroDeps.deprecated) THEN acc
  ELSE DeprecatedOver(
         IF Truthy(deps[taroDeps.deprecated[i]])
         THEN Append(acc, taroDeps.deprecated[i]) ELSE acc,
         deps, i + 1)

\* dependencyProperties.forEach: a section the manifest lacks is skipped
RECURSIVE CollectUpgrade(_, _, _)
CollectUpgrade(acc, m, i) ==
  IF i > Len(dependencyProperties) THEN acc
  ELSE LET property == dependencyProperties[i]
       IN CollectUpgrade(
            IF property \in m.present THEN UpgradeOver(acc, m.deps[property], 1)
            ELSE acc,
            m, i + 1)

RECURSIVE CollectDeprecated(_, _, _)
CollectDeprecated(acc, m, i) ==
  IF i > Len(dependencyProperties) THEN acc
  ELSE LET property == dependencyProperties[i]
       IN CollectDeprecated(
            IF property \in m.present THEN DeprecatedOver(acc, m.deps[property], 1)
            ELSE acc,
            m, i + 1)

NoUpgrades == [order |-> <<>>, from |-> [d \in Elems(taroDeps.upgrade) |-> NoRange]]

\* Manifests read by the runs.
RangeTexts ==
  { V("^", 2, 2, 10), V("^", 3, 1, 1), V(">=", 3, 0, 0), V("", 3, 0, 0),
    V("empty", 0, 0, 0), V("bad", 0, 0, 0) }

NoDeps == [d \in DepNames |-> NoRange]

SectionMaps ==
  { [d \in DepNames |->
       IF d = taroDeps.upgrade[1] THEN a
       ELSE IF d = taroDeps.upgrade[2] THEN b ELSE c] :
      a \in RangeTexts \cup {NoRange}, b \in RangeTexts \cup {NoRange},
      c \in {NoRange, V("^", 1, 3, 0)} }

OneSection(s, map) ==
  [present |-> {s}, deps |-> [t \in Sections |-> IF t = s THEN map ELSE NoDeps]]

TwoSections(s, map, t, r) ==
  [present |-> {s, t},
   deps |-> [x \in Sections |->
               IF x = s THEN map
               ELSE IF x = t THEN [NoDeps EXCEPT ![taroDeps.upgrade[1]] = r]
               ELSE NoDeps]]

Manifests ==
  {EmptyManifest}
    \cup {OneSection(s, map) : s \in Sections, map \in SectionMaps}
    \cup {TwoSections(st[1], map, st[2], r) :
            st \in {x \in Sections \X Sections : x[1] # x[2]},
            map \in SectionMaps, r \in RangeTexts}

SampleManifests ==
  { EmptyManifest,
    OneSection("dependencies",
               [d \in DepNames |->
                  IF d = "nervjs" THEN V("^", 1, 3, 0) ELSE V("^", 2, 2, 10)]),
    OneSection("devDependencies",
               [NoDeps EXCEPT !["@tarojs/taro"] = V("^", 3, 1, 1)]) }

\* checkDependencies up to the prompt: readPkgUp, the three lists, the tables
CheckDependenciesNoReturn(M) ==
  /\ pc = "checkDependencies"
  /\ \E found \in BOOLEAN :
       /\ pkgFound' = found
       /\ IF ~found
          THEN /\ log' = log \cup {"no package.json"}
               /\ pkg' = EmptyManifest
          ELSE /\ log' = log \cup {"dependencies alert"}
               /\ pkg' \in M
  /\ pc' = "prompt"
  /\ upgradeDeps' = CollectUpgrade(NoUpgrades, pkg', 1)
  /\ deprecatedDeps' = CollectDeprecated(<<>>, pkg', 1)
  /\ UNCHANGED <<envVars, files, features, original, exitCode, projVars, marker, passVars,
                 dependenciesMarkers, markerRead, babelVars, prompted, commands,
                 idem>>

CheckDependenciesOn(M) ==
  /\ pc = "checkDependencies"
  /\ \E found \in BOOLEAN :
       /\ pkgFound' = found
       /\ IF ~found
          THEN /\ log' = log \cup {"no package.json"}
               /\ pc' = "thanks"
               /\ UNCHANGED <<pkg, upgradeDeps, deprecatedDeps>>
          ELSE /\ log' = log \cup {"dependencies alert"}
               /\ pc' = "prompt"
               /\ \E m \in M :
                    /\ pkg' = m
                    /\ upgradeDeps' = CollectUpgrade(NoUpgrades, m, 1)
                    /\ deprecatedDeps' = CollectDeprecated(<<>>, m, 1)
  /\ UNCHANGED <<envVars, files, features, original, exitCode, projVars, marker, passVars,
                 dependenciesMarkers, markerRead, babelVars, prompted, commands,
                 idem>>

CheckDependencies == CheckDependenciesOn(SampleManifests)

Themes == {"Yes (use npm)", "Yes (use yarn)", "No"}

Bin(theme) ==
  CASE theme = "Yes (use npm)" -> "npm"
    [] theme = "Yes (use yarn)" -> "yarn"
    [] OTHER -> "none"

RECURSIVE Pkgs(_, _)
Pkgs(order, i) ==
  IF i > Len(order) THEN <<>>
  ELSE <<order[i] \o "@^3.1.1">> \o Pkgs(order, i + 1)

RECURSIVE InstallNames(_, _)
InstallNames(dev, i) ==
  IF i > Len(taroDeps.install) THEN <<>>
  ELSE (IF taroDeps.install[i].dev = dev THEN <<taroDeps.install[i].name>> ELSE <<>>)
         \o InstallNames(dev, i + 1)

\* Object.keys(dependenciesMarkers)
MarkerKeys(markers) ==
  (IF markers["legacy-decorators"] > 0 THEN <<"legacy-decorators">> ELSE <<>>)
    \o (IF markers["babel-plugin-const-enum"] > 0
        THEN <<"babel-plugin-const-enum">> ELSE <<>>)

PackageCommands(bin) ==
  LET installCommand == IF bin = "npm" THEN "install" ELSE "add"
      uninstallCommand == IF bin = "npm" THEN "uninstall" ELSE "remove"
  IN << [bin |-> bin, cmd |-> installCommand, dev |-> FALSE,
         pkgs |-> Pkgs(upgradeDeps.order, 1) \o InstallNames(FALSE, 1)],
        [bin |-> bin, cmd |-> installCommand, dev |-> TRUE,
         pkgs |-> InstallNames(TRUE, 1) \o MarkerKeys(dependenciesMarkers)],
        [bin |-> bin, cmd |-> uninstallCommand, dev |-> FALSE,
         pkgs |-> deprecatedDeps] >>

\* checkDependencies from the prompt on: the three package manager commands,
\* the first that fails rejects bootstrap()
PromptInstall ==
  /\ pc = "prompt"
  /\ prompted' = TRUE
  /\ \E theme \in Themes, nOk \in 0..3 :
       IF Bin(theme) = "none"
       THEN /\ nOk = 3
            /\ pc' = "thanks"
            /\ UNCHANGED <<commands, exitCode, log>>
       ELSE /\ commands' = SubSeq(PackageCommands(Bin(theme)), 1, Min(nOk + 1, 3))
            /\ IF nOk = 3
               THEN /\ pc' = "thanks"
                    /\ UNCHANGED <<exitCode, log>>
               ELSE /\ pc' = "crashed"
                    /\ exitCode' \in {0, 1}
                    /\ log' = log \cup {"unhandled rejection"}
  /\ UNCHANGED <<envVars, files, features, original, projVars, marker, passVars,
                 dependenciesMarkers, markerRead, babelVars, pkgFound, pkg,
                 upgradeDeps, deprecatedDeps, idem>>

\* bootstrap: the closing message
Thanks ==
  /\ pc = "thanks"
  /\ log' = log \cup {"thanks"}
  /\ pc' = "done"
  /\ exitCode' = 0
  /\ UNCHANGED <<envVars, files, features, original, projVars, marker, passVars,
                 dependenciesMarkers, markerRead, babelVars, depVars, idem>>

Next ==
  \/ EnsureGitClean
  \/ SkipGitCheck
  \/ LoadProject
  \/ TransformAndOverwriteConfig
  \/ TransformEntry
  \/ MarkerStart
  \/ TransformStart
  \/ \E w \in Workers : WorkerTake(w)
  \/ \E w \in Workers : WorkerRun(w)
  \/ TransformFinish
  \/ MarkerOutput
  \/ CheckBabelConfig
  \/ CheckDependencies
  \/ PromptInstall
  \/ Thanks

Spec == Init /\ [][Next]_vars


\* --------------------------------------------- dependency plans on their own
\* The state in which a run over a project of plain modules, started in local
\* mode on a machine with two cores, calls checkDependencies.
AtCheckDependencies ==
  /\ nodeEnvLocal = TRUE /\ force = FALSE /\ cpusOpt = 0 /\ osCpus = 2
  /\ files = [f \in FileIds |-> PlainModule]
  /\ features = [f \in FileIds |-> {}]
  /\ original = [f \in FileIds |-> PlainModule]
  /\ pc = "checkDependencies"
  /\ exitCode = -1
  /\ log = {"Transform router", "Transform taro-imports", "Transform page-config"}
  /\ gitResult = "unchecked"
  /\ loadResult = "ok"
  /\ configRewritten = TRUE
  /\ entryRewritten = TRUE
  /\ marker = ZeroMarker
  /\ cur = 4
  /\ passState = [i \in 1..3 |-> "Merged"]
  /\ started = <<"router", "taro-imports", "page-config">>
  /\ pool = 2
  /\ queue = {}
  /\ holding = [w \in Workers |-> 0]
  /\ delta = [w \in Workers |-> ZeroMarker]
  /\ processed = [i \in 1..3 |-> [f \in FileIds |-> 1]]
  /\ failed = [i \in 1..3 |-> {}]
  /\ dependenciesMarkers = ZeroMarker
  /\ markerRead = TRUE
  /\ babelExisted = TRUE
  /\ babelRendered = FALSE
  /\ babelParam = FALSE
  /\ babelWritten = FALSE
  /\ pkgFound = FALSE
  /\ pkg = EmptyManifest
  /\ upgradeDeps = NoUpgrades
  /\ deprecatedDeps = <<>>
  /\ prompted = FALSE
  /\ commands = <<>>
  /\ idem = IdleIdem

CheckDependenciesAny == CheckDependenciesOn(Manifests)

NextDeps ==
  \/ CheckDependenciesAny
  \/ PromptInstall
  \/ Thanks

SpecDeps == AtCheckDependencies /\ [][NextDeps]_vars

\* ------------------------------------------------ one pass on one file, twice
NotStarted ==
  /\ nodeEnvLocal = FALSE /\ force = FALSE /\ cpusOpt = 0 /\ osCpus = 2
  /\ files = [f \in FileIds |-> PlainModule]
  /\ features = [f \in FileIds |-> {}]
  /\ original = [f \in FileIds |-> PlainModule]
  /\ pc = "idle"
  /\ exitCode = -1
  /\ log = {}
  /\ gitResult = "unchecked"
  /\ loadResult = "unloaded"
  /\ configRewritten = FALSE
  /\ entryRewritten = FALSE
  /\ marker = ZeroMarker
  /\ cur = 1
  /\ passState = [i \in 1..3 |-> "Pending"]
  /\ started = <<>>
  /\ pool = 0
  /\ queue = {}
  /\ holding = [w \in Workers |-> 0]
  /\ delta = [w \in Workers |-> ZeroMarker]
  /\ processed = [i \in 1..3 |-> [f \in FileIds |-> 0]]
  /\ failed = [i \in 1..3 |-> {}]
  /\ dependenciesMarkers = ZeroMarker
  /\ markerRead = FALSE
  /\ babelExisted = FALSE
  /\ babelRendered = FALSE
  /\ babelParam = FALSE
  /\ babelWritten = FALSE
  /\ pkgFound = FALSE
  /\ pkg = EmptyManifest
  /\ upgradeDeps = NoUpgrades
  /\ deprecatedDeps = <<>>
  /\ prompted = FALSE
  /\ commands = <<>>

pipelineVars ==
  <<envVars, files, features, original, pc, exitCode, log, projVars, marker,
    passVars, dependenciesMarkers, markerRead, babelVars, depVars>>

InitPass ==
  /\ NotStarted
  /\ \E p \in PassNames, f \in WellFormedFiles :
       idem = [stage |-> 0, pass |-> p, file |-> f, once |-> f, twice |-> f]

\* The pass over the file as it is on disk.
ApplyOnce ==
  /\ idem.stage = 0
  /\ idem' = [idem EXCEPT !.stage = 1, !.once = ApplyPass(idem.pass, idem.file)]
  /\ UNCHANGED pipelineVars

\* The same pass over its own output.
ApplyAgain ==
  /\ idem.stage = 1
  /\ idem' = [idem EXCEPT !.stage = 2, !.twice = ApplyPass(idem.pass, idem.once)]
  /\ UNCHANGED pipelineVars

NextPass ==
  \/ ApplyOnce
  \/ ApplyAgain

SpecPass == InitPass /\ [][NextPass]_vars


\* ------------------------------------------------------------------ claims
AfterRun == {"markerOutput", "checkBabelConfig", "checkDependencies", "prompt",
             "thanks", "done"}

AllMerged == \A i \in 1..3 : passState[i] = "Merged"

Mutated ==
  \/ configRewritten
  \/ entryRewritten
  \/ started # <<>>
  \/ files # original
  \/ babelWritten
  \/ commands # <<>>

\* The three passes in their declared order, on one file.
ThroughAllPasses(c) ==
  ApplyPass("page-config", ApplyPass("taro-imports", ApplyPass("router", c)))

\* C1: the passes are started once each, in the order router, taro-imports,
\* page-config; a pass starts only when all earlier passes have finished, so
\* at most one pass runs at a time; past the loop all three ran.
PassesInOrder ==
  /\ Len(started) <= 3
  /\ \A i \in 1..Len(started) :
       started[i] = <<"router", "taro-imports", "page-config">>[i]
  /\ Len(started) = Cardinality({i \in 1..3 : passState[i] # "Pending"})
  /\ Cardinality({i \in 1..3 : passState[i] = "Running"}) <= 1
  /\ \A i \in 1..3 : passState[i] # "Pending" =>
       \A j \in 1..(i - 1) : passState[j] = "Merged"
  /\ (\A i \in 1..3 : passState[i] # "Running") =>
       (queue = {} /\ \A w \in Workers : holding[w] = 0)
  /\ pc \in AfterRun => (Len(started) = 3 /\ AllMerged)

PassesInOrderReached ==
  /\ pc = "done"
  /\ started = <<"router", "taro-imports", "page-config">>
  /\ AllMerged

\* C2: when the Project cannot be loaded (build config not found, sourceRoot
\* missing) the process has printed the message and exited with status 1,
\* and nothing of the project was changed.
FatalBeforeMutation ==
  loadResult \in {"ConfigNotFound", "SourceRootMissing"} =>
    /\ pc = "exited"
    /\ exitCode = 1
    /\ ("fatal: " \o loadResult) \in log
    /\ ~Mutated
    /\ \A i \in 1..3 : passState[i] = "Pending"

FatalReached ==
  /\ loadResult = "SourceRootMissing"
  /\ pc = "exited"
  /\ exitCode = 1

\* C3: a file whose transform throws in some pass is left alone and nothing
\* else changes: every file went through every pass it did not throw in,
\* all three passes and the steps after them ran, and the run that reaches
\* its end exits with status 0; only the package manager can end it otherwise.
FileFailureIsolated ==
  (\E i \in 1..3 : failed[i] # {}) =>
    /\ pc # "exited"
    /\ pc = "crashed" => prompted
    /\ \A i \in 1..3 : passState[i] = "Merged" =>
         \A f \in FileIds : processed[i][f] = 1
    /\ pc \in AfterRun =>
         /\ AllMerged
         /\ \A f \in FileIds : files[f] = ThroughAllPasses(original[f])
    /\ pc = "done" => (exitCode = 0 /\ markerRead /\ "thanks" \in log)

FileFailureReached ==
  /\ pc = "done"
  /\ exitCode = 0
  /\ failed[1] # {}
  /\ \E f \in FileIds : f \notin failed[1] /\ files[f] # original[f]

\* C4: when no package.json is found the three passes have finished, the
\* user was not prompted, no package manager command was run and the run
\* goes on to its normal end.
NoManifestSkipsReport ==
  "no package.json" \in log =>
    /\ AllMerged
    /\ markerRead
    /\ ~prompted
    /\ commands = <<>>
    /\ pc \in {"thanks", "done"}
    /\ pc = "done" => exitCode = 0

NoManifestReached ==
  /\ "no package.json" \in log
  /\ pc = "done"
  /\ exitCode = 0

\* C5: the marker's count for legacy decorators, read after the last pass,
\* equals the number of files that contain legacy decorators.
DecoratedFiles == {f \in FileIds : "legacy-decorators" \in features[f]}

MarkerCountsDecoratedFiles ==
  markerRead => dependenciesMarkers["legacy-decorators"] = Cardinality(DecoratedFiles)

\* C6: in a pass no file is owned by two workers, a file is in exactly one of
\* the three places not handed out / owned by one worker / processed once,
\* and when the pass has finished every file was processed exactly once.
Owners(f) == {w \in Workers : holding[w] = f}

ExclusiveOwnership ==
  /\ \A w \in Workers : holding[w] # 0 => w <= pool
  /\ \A i \in 1..3, f \in FileIds :
       /\ processed[i][f] <= 1
       /\ passState[i] = "Pending" => processed[i][f] = 0
       /\ passState[i] = "Merged" => processed[i][f] = 1
       /\ passState[i] = "Running" =>
            Cardinality(Owners(f)) + processed[i][f]
              + (IF f \in queue THEN 1 ELSE 0) = 1

TwoWorkersBusy ==
  \E v \in Workers, w \in Workers :
    v # w /\ holding[v] # 0 /\ holding[w] # 0 /\ holding[v] # holding[w]

\* C7: a pass applied to its own output changes nothing more.
PassIdempotent == idem.stage = 2 => idem.twice = idem.once

RouterAppliedTwice ==
  /\ idem.stage = 2
  /\ idem.pass = "router"
  /\ idem.file.routerUses = 2
  /\ idem.once # idem.file
  /\ idem.once.instanceFields = 1

\* C8: a dependency of the upgrade registry is planned for upgrade exactly
\* when some dependency section declares it with a range that version 3.1.1
\* does not satisfy.
Admits(range) == semverSatisfies(expectedMinimum, range)

UpgradeIffUnsatisfied ==
  (pkgFound /\ pc \in {"prompt", "thanks", "done", "crashed"}) =>
    \A d \in Elems(taroDeps.upgrade) :
      (d \in Elems(upgradeDeps.order)) <=>
        \E s \in pkg.present : pkg.deps[s][d].op # "none" /\ ~Admits(pkg.deps[s][d])

\* C9 as stated: the parameter of the babel config template is true exactly
\* when the marker read after the passes recorded legacy decorators.
BabelParamFromDecorators ==
  /\ markerRead => AllMerged
  /\ babelRendered =>
       (babelParam <=> dependenciesMarkers["legacy-decorators"] > 0)

\* C9 amended: the parameter (shouldUseConstEnumPlugin) is true exactly when
\* the marker read after the three passes recorded babel-plugin-const-enum;
\* the marker is read only when all passes have finished.
BabelParamFromConstEnum ==
  /\ markerRead => (AllMerged /\ dependenciesMarkers = marker)
  /\ babelRendered =>
       /\ markerRead
       /\ babelParam <=> dependenciesMarkers["babel-plugin-const-enum"] > 0

BabelParamRendered ==
  /\ babelRendered
  /\ babelParam
  /\ dependenciesMarkers["legacy-decorators"] = 0

\* C10 as stated: without --force and outside local mode the project is
\* changed only in a git working tree without uncommitted changes; otherwise
\* the process has exited with status 1 and nothing was changed.
Guarded == ~force /\ ~nodeEnvLocal

MutatesOnlyCleanWorkingTree ==
  Guarded =>
    /\ Mutated => gitResult = "clean"
    /\ gitResult \in (GitResults \ {"clean"}) =>
         (pc = "exited" /\ exitCode = 1 /\ ~Mutated)

\* C10 amended: ... only in a git working tree without uncommitted changes or
\* in a directory that is no git repository; for uncommitted changes and for
\* every other failure of the check the process has exited with status 1 and
\* nothing was changed.
MutatesOnlyCleanOrNoRepository ==
  Guarded =>
    /\ Mutated => gitResult \in {"clean", "notRepo"}
    /\ gitResult \in {"dirty", "error"} =>
         (pc = "exited" /\ exitCode = 1 /\ ~Mutated /\ "git changes" \in log)

GitCheckFailedReached ==
  /\ Guarded
  /\ gitResult = "error"
  /\ pc = "exited"
  /\ exitCode = 1

====
